---- MODULE Spec2Model ----
(***************************************************************************)
(* State-machine model of the custom-bot backend's database layer          *)
(* (src/database/crud/*.py over the tables of                              *)
(* src/database/database_sql_struct.py).  Every CRUD function is one       *)
(* action: one SQLAlchemy session, committed or rolled back as a whole.    *)
(* The variable `last` holds what the most recent call returned and the    *)
(* message it printed.  The variable `calls` holds the calls that are made *)
(* by two request threads at the same time, each with the statement it is  *)
(* at and what it has read: these calls take one step per read and one for *)
(* the write and commit.                                                   *)
(***************************************************************************)
EXTENDS Integers, FiniteSets, Sequences, TLC

VARIABLES users, part_type_metadata, robot_parts, custom_bots,
          custom_bot_parts, orders, last, calls

vars == <<users, part_type_metadata, robot_parts, custom_bots,
          custom_bot_parts, orders, last, calls>>

db == <<users, part_type_metadata, robot_parts, custom_bots,
        custom_bot_parts, orders>>

(***************************************************************************)
(* Bounds of the model.                                                    *)
(***************************************************************************)
MaxAmount == 2
MaxQuantity == 2

\* Input values the calls are tried with.
TypeInputs == {"chest", "hand", "arm"}
PriceInputs == {10, 15}
NameInputs == {"bot_a"}
StatusInputs == {"pending", "paid", "production", "cancelled"}
AmountInputs == 1..MaxAmount
QuantityInputs == 1..MaxQuantity

(***************************************************************************)
(* Schema: the enumerations of the tables.                                 *)
(***************************************************************************)
DirectionEnum == {"left", "right", "center"}

StatusEnum == {"in_progress", "ordered"}

\* update_bot_part's allowed_types
allowed_types ==
    {"skeleton", "head", "arm", "upper_arm", "lower_arm", "hand", "shoulder",
     "chest", "upper_waist", "lower_waist", "side_skirt", "front_skirt",
     "back_skirt", "upper_leg", "lower_leg", "knee", "foot", "backpack"}

\* update_order's possible_status
possible_status ==
    {"pending", "paid", "production", "shipping", "received", "cancelled"}

\* delete_user's preserved_statuses
preserved_statuses == {"paid", "shipped", "cancelled"}

\* delete_robot_part's restricted_statuses
restricted_statuses == {"ordered", "shipped", "cancelled"}

(***************************************************************************)
(* Helpers.                                                                *)
(***************************************************************************)
MaxOf(S) == CHOOSE x \in S : \A y \in S : y <= x

\* The id SQLite gives a new row of an INTEGER PRIMARY KEY table:
\* one more than the largest id in the table.
NextId(ids) == IF ids = {} THEN 1 ELSE MaxOf(ids) + 1

RECURSIVE SumOf(_, _)
SumOf(f, S) ==
    IF S = {} THEN 0
    ELSE LET x == CHOOSE y \in S : TRUE
         IN  f[x] + SumOf(f, S \ {x})

Ret(op, ok, msg) == [op |-> op, ok |-> ok, msg |-> msg]

\* The request threads that make calls at the same time, and a thread that
\* has made no call.
Slots == {1, 2}
Idle == [op |-> "idle", pc |-> "idle"]

\* A call that runs from its first statement to its return with no step of
\* another call in between.
Alone == UNCHANGED calls

(***************************************************************************)
(* Queries shared by the operations.                                       *)
(***************************************************************************)
\* The rows of custom_bot_parts of one bot.
PartsOfBot(bot_id) == {r \in custom_bot_parts : r.custom_robot_id = bot_id}

\* CustomBotParts JOIN RobotParts ON RobotParts.id = robot_part_id, for one bot.
JoinedParts(parts, bot_id) ==
    {r \in PartsOfBot(bot_id) : r.robot_part_id \in DOMAIN parts}

\* select func.sum(RobotParts.price * CustomBotParts.robot_part_amount): the
\* price of one bot.  SQL's SUM over no rows is NULL: see HasBotPrice.
bot_price(parts, bot_id) ==
    LET rows == JoinedParts(parts, bot_id)
        cost == [r \in rows |-> parts[r.robot_part_id].price * r.robot_part_amount]
    IN  SumOf(cost, rows)

HasBotPrice(parts, bot_id) == JoinedParts(parts, bot_id) # {}

\* select(Order).where(custom_robot_id == bot_id, status == "pending")
PendingOrdersOfBot(ords, bot_id) ==
    {o \in DOMAIN ords :
        ords[o].custom_robot_id = bot_id /\ ords[o].status = "pending"}

\* PendingOrdersOfUserBot that finds no order.
PendingOrdersOfUserBot_None(ords, user_id, bot_id) == {}

\* select(Order).where(user_id ==, custom_robot_id ==, status == "pending")
PendingOrdersOfUserBot(ords, user_id, bot_id) ==
    {o \in PendingOrdersOfBot(ords, bot_id) : ords[o].user_id = user_id}

\* The primary key of custom_bot_parts:
\* (custom_robot_id, robot_part_id, direction).
PartKey(r) == <<r.custom_robot_id, r.robot_part_id, r.direction>>

PrimaryKeyOk(rows) ==
    \A r1, r2 \in rows : PartKey(r1) = PartKey(r2) => r1 = r2

(***************************************************************************)
(* The database after app.py has recreated the tables and loaded           *)
(* data/initial_data.py: a catalog of parts and the registry of their      *)
(* types ("arm" is an allowed type the registry does not list).            *)
(***************************************************************************)
parts_metadata == [chest |-> FALSE, hand |-> TRUE]

bot_parts == (1 :> [type |-> "chest", price |-> 10])

Init ==
    /\ users = {}
    /\ part_type_metadata = parts_metadata
    /\ robot_parts = bot_parts
    /\ custom_bots = << >>
    /\ custom_bot_parts = {}
    /\ orders = << >>
    /\ last = Ret("init", TRUE, "")
    /\ calls = [s \in Slots |-> Idle]

(***************************************************************************)
(* crud_create.py                                                          *)
(***************************************************************************)
\* add_user: the new user's username and email are fresh, so the duplicate
\* check passes; the row gets the next id.
add_user ==
    /\ users' = users \cup {NextId(users)}
    /\ last' = Ret("add_user", TRUE, "added")
    /\ UNCHANGED <<part_type_metadata, robot_parts, custom_bots,
                   custom_bot_parts, orders>>

\* A part dict of parts_list is valid when it has every field and a
\* numeric price; "price" holds "NaN" for a non-numeric price.
ValidPart(part) ==
    /\ {"type", "price"} \subseteq DOMAIN part
    /\ part.price \in Int

RECURSIVE NewParts(_, _, _)
NewParts(parts, parts_list, i) ==
    IF i > Len(parts_list) THEN parts
    ELSE IF ValidPart(parts_list[i])
         THEN NewParts(parts @@ (NextId(DOMAIN parts) :>
                          [type |-> parts_list[i].type,
                           price |-> parts_list[i].price]),
                       parts_list, i + 1)
         ELSE NewParts(parts, parts_list, i + 1)

add_part(parts_list) ==
    LET added == NewParts(robot_parts, parts_list, 1)
    IN  /\ IF parts_list # << >> /\ added # robot_parts
           THEN /\ robot_parts' = added
                /\ last' = Ret("add_part", TRUE, "added")
           ELSE /\ robot_parts' = robot_parts
                /\ last' = Ret("add_part", FALSE,
                               IF parts_list = << >> THEN "empty_list"
                               ELSE "no_valid_parts")
        /\ UNCHANGED <<users, part_type_metadata, custom_bots,
                       custom_bot_parts, orders>>

\* create_custom_bot_for_user: the loop over bots_list.  `acc` is
\* new_bots_list; a bot whose (user_id, name) is already in the table ends
\* the call with nothing added ("dup").
RECURSIVE NewBots(_, _, _)
NewBots(bots_list, i, acc) ==
    IF i > Len(bots_list) THEN [dup |-> FALSE, bots |-> acc]
    ELSE LET bot == bots_list[i]
         IN  IF bot.user_id \notin users
             THEN NewBots(bots_list, i + 1, acc)
             ELSE IF \E b \in DOMAIN custom_bots :
                        /\ custom_bots[b].user_id = bot.user_id
                        /\ custom_bots[b].name = bot.name
                  THEN [dup |-> TRUE, bots |-> << >>]
                  ELSE NewBots(bots_list, i + 1,
                               Append(acc, [user_id |-> bot.user_id,
                                            name |-> bot.name,
                                            status |-> "in_progress"]))

\* session.add_all(new_bots_list): each row gets the next id.
RECURSIVE InsertAll(_, _, _)
InsertAll(table, rows, i) ==
    IF i > Len(rows) THEN table
    ELSE InsertAll(table @@ (NextId(DOMAIN table) :> rows[i]), rows, i + 1)

create_custom_bot_for_user(bots_list) ==
    LET new == NewBots(bots_list, 1, << >>)
        added == InsertAll(custom_bots, new.bots, 1)
    IN  /\ IF bots_list = << >>
           THEN /\ custom_bots' = custom_bots
                /\ last' = Ret("create_custom_bot_for_user", FALSE, "empty_list")
           ELSE IF new.dup
           THEN /\ custom_bots' = custom_bots
                /\ last' = Ret("create_custom_bot_for_user", FALSE, "name_exists")
           ELSE IF new.bots = << >>
           THEN /\ custom_bots' = custom_bots
                /\ last' = Ret("create_custom_bot_for_user", FALSE, "no_valid_bots")
           ELSE /\ custom_bots' = added
                /\ last' = Ret("create_custom_bot_for_user", TRUE, "added")
        /\ UNCHANGED <<users, part_type_metadata, robot_parts,
                       custom_bot_parts, orders>>

\* BotLocked without the check: a bot is never taken as ordered.
BotLocked_Never(bot) == FALSE

\* add_part_to_custom_bot, the check that the bot can still be changed.
BotLocked(bot) == bot.status = "ordered"

\* The rows of custom_bot_parts with one primary key.
RowsAt(rows, b, p, d) ==
    {r \in rows : r.custom_robot_id = b /\ r.robot_part_id = p /\ r.direction = d}

\* Upsert that sets an existing row's amount to `amount` instead of adding.
Upsert_Replace(part_id, custom_robot_id, amount, direction) ==
    {r \in custom_bot_parts :
        ~(/\ r.robot_part_id = part_id
          /\ r.custom_robot_id = custom_robot_id
          /\ r.direction = direction)}
      \cup {[custom_robot_id |-> custom_robot_id,
              robot_part_id |-> part_id,
              direction |-> direction,
              robot_part_amount |-> amount]}

\* add_part_to_custom_bot, the update or insert of the row of
\* (bot, part, direction): an existing row's amount grows by `amount`.
Upsert(part_id, custom_robot_id, amount, direction) ==
    LET existing_entry ==
            {r \in custom_bot_parts :
                /\ r.robot_part_id = part_id
                /\ r.custom_robot_id = custom_robot_id
                /\ r.direction = direction}
    IN  IF existing_entry # {}
        THEN {IF r \in existing_entry
              THEN [r EXCEPT !.robot_part_amount = @ + amount]
              ELSE r : r \in custom_bot_parts}
        ELSE custom_bot_parts \cup
               {[custom_robot_id |-> custom_robot_id,
                 robot_part_id |-> part_id,
                 direction |-> direction,
                 robot_part_amount |-> amount]}

\* add_part_to_custom_bot, "Ensure part_type metadata is up-to-date".
UpToDateMetadata(part_type, direction) ==
    LET asym == direction \in {"left", "right"}
    IN  IF part_type \notin DOMAIN part_type_metadata
        THEN part_type_metadata @@ (part_type :> asym)
        ELSE IF ~part_type_metadata[part_type] /\ asym
        THEN [part_type_metadata EXCEPT ![part_type] = TRUE]
        ELSE part_type_metadata

\* add_part_to_custom_bot: the checks in the order of the code, then the
\* upsert of the row and the registry update, in one commit; a commit that
\* breaks the table's primary key raises, and the session is rolled back.
add_part_to_custom_bot(part_id, custom_robot_id, amount, direction) ==
    LET fail(msg) ==
            /\ last' = Ret("add_part_to_custom_bot", FALSE, msg)
            /\ UNCHANGED <<custom_bot_parts, part_type_metadata>>
        part_type == robot_parts[part_id].type
        upserted == Upsert(part_id, custom_robot_id, amount, direction)
    IN  /\ IF direction \notin {"left", "right", "center"}
           THEN fail("invalid_direction")
           ELSE IF amount < 1
           THEN fail("invalid_amount")
           ELSE IF part_id \notin DOMAIN robot_parts
           THEN fail("no_part")
           ELSE IF part_type \notin DOMAIN part_type_metadata
           THEN fail("type_not_registered")
           ELSE IF part_type_metadata[part_type] /\ direction \notin {"left", "right"}
           THEN fail("direction_for_asymmetrical")
           ELSE IF ~part_type_metadata[part_type] /\ direction # "center"
           THEN fail("direction_for_symmetrical")
           ELSE IF custom_robot_id \notin DOMAIN custom_bots
           THEN fail("no_bot")
           ELSE IF BotLocked(custom_bots[custom_robot_id])
           THEN fail("bot_ordered")
           ELSE IF ~PrimaryKeyOk(upserted)
           THEN fail("integrity_error")
           ELSE /\ custom_bot_parts' = upserted
                /\ part_type_metadata' = UpToDateMetadata(part_type, direction)
                /\ last' = Ret("add_part_to_custom_bot", TRUE,
                               IF RowsAt(custom_bot_parts, custom_robot_id,
                                         part_id, direction) # {}
                               THEN "updated_amount" ELSE "added")
        /\ UNCHANGED <<users, robot_parts, custom_bots, orders>>

\* RegisterType that overwrites the flag of a registered type.
RegisterType_Overwrite(part_type, is_asym) ==
    [metadata |-> IF part_type \in DOMAIN part_type_metadata
                  THEN [part_type_metadata EXCEPT ![part_type] = is_asym]
                  ELSE part_type_metadata @@ (part_type :> is_asym),
     ok |-> TRUE,
     msg |-> IF part_type \in DOMAIN part_type_metadata
             THEN "exists" ELSE "created"]

\* RegisterType that takes symmetrical -> asymmetrical as an upgrade.
RegisterType_Upgrade(part_type, is_asym) ==
    IF part_type \in DOMAIN part_type_metadata
    THEN IF part_type_metadata[part_type] = is_asym
         THEN [metadata |-> part_type_metadata, ok |-> TRUE, msg |-> "exists"]
         ELSE IF is_asym
         THEN [metadata |-> [part_type_metadata EXCEPT ![part_type] = TRUE],
               ok |-> TRUE, msg |-> "exists"]
         ELSE [metadata |-> part_type_metadata, ok |-> FALSE,
               msg |-> "ValueError: exists with is_asymmetrical=True"]
    ELSE [metadata |-> part_type_metadata @@ (part_type :> is_asym),
          ok |-> TRUE, msg |-> "created"]

\* create_part_type_metadata, the decision: what the registry becomes and
\* what the call returns ("created", "exists") or raises (ValueError, with
\* the flag the type is registered with).
RegisterType(part_type, is_asym) ==
    IF part_type \in DOMAIN part_type_metadata
    THEN IF part_type_metadata[part_type] # is_asym
         THEN [metadata |-> part_type_metadata, ok |-> FALSE,
               msg |-> IF part_type_metadata[part_type]
                       THEN "ValueError: exists with is_asymmetrical=True"
                       ELSE "ValueError: exists with is_asymmetrical=False"]
         ELSE [metadata |-> part_type_metadata, ok |-> TRUE, msg |-> "exists"]
    ELSE [metadata |-> part_type_metadata @@ (part_type :> is_asym),
          ok |-> TRUE, msg |-> "created"]

create_part_type_metadata(part_type, is_asym) ==
    LET reg == RegisterType(part_type, is_asym)
    IN  /\ part_type_metadata' = reg.metadata
        /\ last' = Ret("create_part_type_metadata", reg.ok, reg.msg)
        /\ UNCHANGED <<users, robot_parts, custom_bots, custom_bot_parts, orders>>

\* add_order, one order of orders_list: the outcomes of the loop body on the
\* tables `st` (orders, custom_bots and the messages printed so far).  The
\* pending order of the same user and bot that session.scalar returns is
\* any one of those the query matches.
AddOneOrder(st, order) ==
    LET skip(msg) == {[st EXCEPT !.log = Append(@, msg)]}
        bot_id == order.custom_robot_id
        total_price == order.quantity * bot_price(robot_parts, bot_id)
        existing == PendingOrdersOfUserBot(st.orders, order.user_id, bot_id)
        ordered == [st.custom_bots EXCEPT ![bot_id].status = "ordered"]
        new_order == [user_id |-> order.user_id,
                      custom_robot_id |-> bot_id,
                      quantity |-> order.quantity,
                      total_price |-> total_price,
                      status |-> order.status]
    IN  IF order.user_id \notin users THEN skip("no_user")
        ELSE IF bot_id \notin DOMAIN st.custom_bots THEN skip("no_bot")
        ELSE IF PartsOfBot(bot_id) = {} THEN skip("no_parts")
        ELSE IF order.quantity <= 0 THEN skip("invalid_quantity")
        ELSE IF ~HasBotPrice(robot_parts, bot_id) THEN skip("no_price")
        ELSE IF existing # {}
        THEN {[orders |-> [st.orders EXCEPT
                            ![o].quantity = @ + order.quantity,
                            ![o].total_price = @ + total_price],
               custom_bots |-> ordered,
               log |-> Append(st.log, "merged")] : o \in existing}
        ELSE {[orders |-> st.orders @@ (NextId(DOMAIN st.orders) :> new_order),
               custom_bots |-> ordered,
               log |-> Append(st.log, "created")]}

RECURSIVE AddOrders(_, _, _)
AddOrders(sts, orders_list, i) ==
    IF i > Len(orders_list) THEN sts
    ELSE AddOrders(UNION {AddOneOrder(st, orders_list[i]) : st \in sts},
                   orders_list, i + 1)

\* add_order: every order of the list is handled and committed on its own;
\* the call returns True whatever happened to them.
add_order(orders_list) ==
    /\ IF orders_list = << >>
       THEN /\ UNCHANGED <<orders, custom_bots>>
            /\ last' = Ret("add_order", FALSE, <<"empty_list">>)
       ELSE \E st \in AddOrders({[orders |-> orders,
                                  custom_bots |-> custom_bots,
                                  log |-> << >>]}, orders_list, 1) :
               /\ orders' = st.orders
               /\ custom_bots' = st.custom_bots
               /\ last' = Ret("add_order", TRUE, st.log)
    /\ UNCHANGED <<users, part_type_metadata, robot_parts, custom_bot_parts>>

(***************************************************************************)
(* crud_update.py                                                          *)
(***************************************************************************)
\* Renamed that also puts the bot back in progress.
Renamed_InProgress(bot, value) ==
    [bot EXCEPT !.name = value, !.status = "in_progress"]

\* update_custom_bot, setattr(custom_bot, "name", value).
Renamed(bot, value) == [bot EXCEPT !.name = value]

\* update_custom_bot(bot_id, name=value)
update_custom_bot(bot_id, value) ==
    /\ IF bot_id \notin DOMAIN custom_bots
       THEN /\ custom_bots' = custom_bots
            /\ last' = Ret("update_custom_bot", FALSE, "no_bot")
       ELSE IF \E b \in DOMAIN custom_bots :
                 /\ custom_bots[b].user_id = custom_bots[bot_id].user_id
                 /\ custom_bots[b].name = value
                 /\ b # bot_id
       THEN /\ custom_bots' = custom_bots
            /\ last' = Ret("update_custom_bot", FALSE, "name_exists")
       ELSE /\ custom_bots' = [custom_bots EXCEPT ![bot_id] = Renamed(@, value)]
            /\ last' = Ret("update_custom_bot", TRUE, "updated")
    /\ UNCHANGED <<users, part_type_metadata, robot_parts,
                   custom_bot_parts, orders>>

\* update_bot_part, the bots whose orders the price change reaches:
\* select(CustomBotParts.custom_robot_id).where(robot_part_id == part_id)
BotsUsingPart(part_id) ==
    {r.custom_robot_id : r \in {x \in custom_bot_parts : x.robot_part_id = part_id}}

\* OrdersToReprice without the status filter: any order of the bot.
OrdersToReprice_AnyStatus(bot_id) ==
    {o \in DOMAIN orders : orders[o].custom_robot_id = bot_id}

\* update_bot_part, the order of a bot that is recomputed: the one
\* session.scalar returns of those the query for pending orders matches.
OrdersToReprice(bot_id) == PendingOrdersOfBot(orders, bot_id)

\* update_bot_part, the recomputation: `pick` gives, for each bot that uses
\* the part and has an order to reprice, the order that is repriced.
Repriced(parts, pick) ==
    [o \in DOMAIN orders |->
        IF \E b \in DOMAIN pick : pick[b] = o
        THEN IF HasBotPrice(parts, orders[o].custom_robot_id)
             THEN [orders[o] EXCEPT !.total_price =
                      orders[o].quantity * bot_price(parts, orders[o].custom_robot_id)]
             ELSE orders[o]
        ELSE orders[o]]

\* RolledBack that keeps what the session had written.
RolledBack_Kept(written) == written

\* update_bot_part, a return False inside `with Session(engine)` or after
\* session.rollback(): the session ends without a commit, and the parts
\* are the stored ones, whatever setattr had written.
RolledBack(written) == robot_parts

\* update_bot_part(part_id, **changes): changes is a record with any of the
\* fields "type" and "price".  The fields are set in the order the caller
\* gave them: a price may have been set when a type is found invalid.  A
\* query of the recomputation may raise (the database is an SQLite file):
\* the except branch rolls back and writes the original price again.
update_bot_part(part_id, changes) ==
    LET has(key) == key \in DOMAIN changes
        original_price == robot_parts[part_id].price
        price_set ==
            IF has("price") /\ changes.price \in Int
            THEN [robot_parts EXCEPT ![part_id].price = changes.price]
            ELSE robot_parts
        fail(msg) ==
            /\ last' = Ret("update_bot_part", FALSE, msg)
            /\ robot_parts' =
                  IF part_id \in DOMAIN robot_parts
                  THEN RolledBack(price_set) ELSE robot_parts
            /\ orders' = orders
        new_part ==
            [type |-> IF has("type") THEN changes.type ELSE robot_parts[part_id].type,
             price |-> IF has("price") THEN changes.price ELSE original_price]
        parts == [robot_parts EXCEPT ![part_id] = new_part]
        bots == {b \in BotsUsingPart(part_id) : OrdersToReprice(b) # {}}
    IN  /\ IF part_id \notin DOMAIN robot_parts
           THEN fail("no_part")
           ELSE IF has("type") /\ changes.type \notin allowed_types
           THEN fail("invalid_type")
           ELSE IF has("price") /\ changes.price \notin Int
           THEN fail("invalid_price")
           ELSE IF has("price") /\ original_price # changes.price
           THEN \/ \E pick \in [bots -> DOMAIN orders] :
                     /\ \A b \in bots : pick[b] \in OrdersToReprice(b)
                     /\ robot_parts' = parts
                     /\ orders' = Repriced(parts, pick)
                     /\ last' = Ret("update_bot_part", TRUE, "price_changed")
                \/ bots # {} /\ fail("recalculation_error")
           ELSE /\ robot_parts' = parts
                /\ orders' = orders
                /\ last' = Ret("update_bot_part", TRUE, "updated")
        /\ UNCHANGED <<users, part_type_metadata, custom_bots, custom_bot_parts>>

\* RecalculatedTotal that keeps the total the order has.
RecalculatedTotal_Kept(order, quantity) == order.total_price

\* update_order, "Recalculate total_price based on latest quantity":
\* sum(p.price * p.robot_part_amount for p in part_rows) is 0 for no rows.
RecalculatedTotal(order, quantity) ==
    quantity * bot_price(robot_parts, order.custom_robot_id)

\* update_order(order_id, **changes): changes is a record with any of the
\* fields "quantity" and "status".
update_order(order_id, changes) ==
    LET fail(msg) ==
            /\ last' = Ret("update_order", FALSE, msg)
            /\ orders' = orders
        has(key) == key \in DOMAIN changes
        order == orders[order_id]
        quantity == IF has("quantity") THEN changes.quantity ELSE order.quantity
    IN  /\ IF order_id \notin DOMAIN orders
           THEN fail("no_order")
           ELSE IF has("quantity") /\ changes.quantity <= 0
           THEN fail("invalid_quantity")
           ELSE IF has("status") /\ changes.status \notin possible_status
           THEN fail("invalid_status")
           ELSE /\ orders' = [orders EXCEPT ![order_id] =
                      [order EXCEPT
                         !.quantity = quantity,
                         !.status = IF has("status") THEN changes.status ELSE @,
                         !.total_price = IF has("quantity")
                                         THEN RecalculatedTotal(order, quantity)
                                         ELSE @]]
                /\ last' = Ret("update_order", TRUE, "updated")
        /\ UNCHANGED <<users, part_type_metadata, robot_parts, custom_bots,
                       custom_bot_parts>>

\* update_part_on_custom_bot: the row of the same type and direction that
\* session.scalar returns is any one the query matches; it is deleted and
\* the new row inserted.  The insert fails on the primary key, and the
\* session is rolled back, when the new row's key is still in the table.
update_part_on_custom_bot(custom_robot_id, new_part_id, direction, amount) ==
    LET fail(msg) ==
            /\ last' = Ret("update_part_on_custom_bot", FALSE, msg)
            /\ custom_bot_parts' = custom_bot_parts
        matching ==
            {r \in JoinedParts(robot_parts, custom_robot_id) :
                /\ r.direction = direction
                /\ robot_parts[r.robot_part_id].type = robot_parts[new_part_id].type}
        new_custom_part ==
            [custom_robot_id |-> custom_robot_id,
             robot_part_id |-> new_part_id,
             direction |-> direction,
             robot_part_amount |-> amount]
        replace(rows) ==
            IF PrimaryKeyOk(rows \cup {new_custom_part})
            THEN /\ custom_bot_parts' = rows \cup {new_custom_part}
                 /\ last' = Ret("update_part_on_custom_bot", TRUE, "updated")
            ELSE fail("integrity_error")
    IN  /\ IF direction \notin {"left", "right", "center"}
           THEN fail("invalid_direction")
           ELSE IF amount < 1
           THEN fail("invalid_amount")
           ELSE IF custom_robot_id \notin DOMAIN custom_bots
           THEN fail("no_bot")
           ELSE IF custom_bots[custom_robot_id].status = "ordered"
           THEN fail("bot_ordered")
           ELSE IF new_part_id \notin DOMAIN robot_parts
           THEN fail("no_part")
           ELSE IF matching = {}
           THEN replace(custom_bot_parts)
           ELSE \E existing_entry \in matching :
                   replace(custom_bot_parts \ {existing_entry})
        /\ UNCHANGED <<users, part_type_metadata, robot_parts, custom_bots, orders>>

(***************************************************************************)
(* crud_delete.py                                                          *)
(***************************************************************************)
\* The restriction of a table to the ids in `keep`.
Restrict(table, keep) == [id \in keep |-> table[id]]

\* Python's None, SQL's NULL, in a column of ids, which start at 1.
None == 0

\* Order.user_id is declared nullable=False.
NotNull(ords) == \A o \in DOMAIN ords : ords[o].user_id # None

\* delete_user, "Set user_id to None for preserved orders".
Anonymized(preserved_orders) ==
    [o \in DOMAIN orders |->
        IF o \in preserved_orders
        THEN [orders[o] EXCEPT !.user_id = None]
        ELSE orders[o]]

\* delete_user: the orders with user_id None are flushed before the first
\* delete is executed; a row that breaks NOT NULL raises IntegrityError and
\* the session is rolled back.  The tables declare foreign keys, which
\* SQLite does not enforce by default.
delete_user(user_id) ==
    LET bot_ids == {b \in DOMAIN custom_bots : custom_bots[b].user_id = user_id}
        on_bots == {o \in DOMAIN orders : orders[o].custom_robot_id \in bot_ids}
        preserved_orders == {o \in on_bots : orders[o].status \in preserved_statuses}
        anonymized == Anonymized(preserved_orders)
    IN  /\ IF user_id \notin users
           THEN /\ last' = Ret("delete_user", FALSE, "no_user")
                /\ UNCHANGED <<users, custom_bots, custom_bot_parts, orders>>
           ELSE IF ~NotNull(anonymized)
           THEN /\ last' = Ret("delete_user", FALSE, "integrity_error")
                /\ UNCHANGED <<users, custom_bots, custom_bot_parts, orders>>
           ELSE /\ orders' = Restrict(anonymized,
                                     DOMAIN orders \ (on_bots \ preserved_orders))
                /\ custom_bot_parts' =
                      {r \in custom_bot_parts : r.custom_robot_id \notin bot_ids}
                /\ custom_bots' = Restrict(custom_bots, DOMAIN custom_bots \ bot_ids)
                /\ users' = users \ {user_id}
                /\ last' = Ret("delete_user", TRUE, "deleted")
        /\ UNCHANGED <<part_type_metadata, robot_parts>>

delete_custom_bot_from_user(user_id, bot_id) ==
    LET fail(msg) ==
            /\ last' = Ret("delete_custom_bot_from_user", FALSE, msg)
            /\ UNCHANGED <<custom_bots, custom_bot_parts>>
    IN  /\ IF bot_id \notin DOMAIN custom_bots
           THEN fail("no_bot")
           ELSE IF custom_bots[bot_id].user_id # user_id
           THEN fail("not_owner")
           ELSE IF custom_bots[bot_id].status # "in_progress"
           THEN fail("not_in_progress")
           ELSE /\ custom_bot_parts' = custom_bot_parts \ PartsOfBot(bot_id)
                /\ custom_bots' = Restrict(custom_bots, DOMAIN custom_bots \ {bot_id})
                /\ last' = Ret("delete_custom_bot_from_user", TRUE, "deleted")
        /\ UNCHANGED <<users, part_type_metadata, robot_parts, orders>>

delete_robot_part(part_id) ==
    LET fail(msg) ==
            /\ last' = Ret("delete_robot_part", FALSE, msg)
            /\ UNCHANGED <<robot_parts, custom_bot_parts>>
        custom_bot_ids == BotsUsingPart(part_id)
        check_orders ==
            {o \in DOMAIN orders :
                /\ orders[o].custom_robot_id \in custom_bot_ids
                /\ orders[o].status \in restricted_statuses}
    IN  /\ IF part_id \notin DOMAIN robot_parts
           THEN fail("no_part")
           ELSE IF custom_bot_ids # {} /\ check_orders # {}
           THEN fail("used_in_order")
           ELSE /\ custom_bot_parts' =
                      {r \in custom_bot_parts : r.robot_part_id # part_id}
                /\ robot_parts' = Restrict(robot_parts, DOMAIN robot_parts \ {part_id})
                /\ last' = Ret("delete_robot_part", TRUE, "deleted")
        /\ UNCHANGED <<users, part_type_metadata, custom_bots, orders>>

\* order_exists that looks at the pending orders only.
order_exists_Pending(bot_id) == PendingOrdersOfBot(orders, bot_id) # {}

\* delete_part_from_custom_bot, "Check if this bot is referenced in any
\* orders".
order_exists(bot_id) ==
    \E o \in DOMAIN orders : orders[o].custom_robot_id = bot_id

\* delete_part_from_custom_bot(engine, bot_id, part_id): every row of the
\* part on the bot is deleted, whatever its direction.
delete_part_from_custom_bot(bot_id, part_id) ==
    LET fail(msg) ==
            /\ last' = Ret("delete_part_from_custom_bot", FALSE, msg)
            /\ custom_bot_parts' = custom_bot_parts
        bot_part == {r \in PartsOfBot(bot_id) : r.robot_part_id = part_id}
    IN  /\ IF bot_id \notin DOMAIN custom_bots
           THEN fail("no_bot")
           ELSE IF custom_bots[bot_id].status # "in_progress"
           THEN fail("not_in_progress")
           ELSE IF order_exists(bot_id)
           THEN fail("has_order")
           ELSE IF bot_part = {}
           THEN fail("part_not_in_bot")
           ELSE /\ custom_bot_parts' = custom_bot_parts \ bot_part
                /\ last' = Ret("delete_part_from_custom_bot", TRUE, "deleted")
        /\ UNCHANGED <<users, part_type_metadata, robot_parts, custom_bots, orders>>

delete_order(order_id) ==
    LET fail(msg) ==
            /\ last' = Ret("delete_order", FALSE, msg)
            /\ UNCHANGED <<orders, custom_bots>>
    IN  /\ IF order_id \notin DOMAIN orders
           THEN fail("no_order")
           ELSE IF orders[order_id].status # "pending"
           THEN fail("not_pending")
           ELSE IF orders[order_id].custom_robot_id \notin DOMAIN custom_bots
           THEN fail("no_bot")
           ELSE /\ orders' = Restrict(orders, DOMAIN orders \ {order_id})
                /\ custom_bots' =
                      [custom_bots EXCEPT
                         ![orders[order_id].custom_robot_id].status = "in_progress"]
                /\ last' = Ret("delete_order", TRUE, "deleted")
        /\ UNCHANGED <<users, part_type_metadata, robot_parts, custom_bot_parts>>

(***************************************************************************)
(* The specification: any call, with any inputs, at any time.  The tables  *)
(* and the counters are kept within the bounds of the model.               *)
(***************************************************************************)
Bounded(user_ids, part_ids, bot_ids, order_ids, max_quantity) ==
    /\ users' \subseteq user_ids
    /\ DOMAIN robot_parts' \subseteq part_ids
    /\ DOMAIN custom_bots' \subseteq bot_ids
    /\ DOMAIN orders' \subseteq order_ids
    /\ \A r \in custom_bot_parts' : r.robot_part_amount <= MaxAmount
    /\ \A o \in DOMAIN orders' : orders'[o].quantity <= max_quantity

\* The ids the calls are tried with: those of the rows there can be.
UserIds == {1}
PartIds == {1}
BotIds == {1}
OrderIds == {1}

InBounds == Bounded(UserIds, PartIds, BotIds, OrderIds, 1)

PartInputs == [type : TypeInputs, price : PriceInputs]

\* A type that update_bot_part does not allow.
InvalidTypeInputs == {"leg"}

PartChanges ==
    [price : PriceInputs] \cup [type : TypeInputs] \cup
    [type : TypeInputs \cup InvalidTypeInputs, price : PriceInputs]

OrderInputs ==
    [user_id : UserIds, custom_robot_id : BotIds,
     quantity : {1}, status : StatusInputs]

\* The lists add_part and add_order are called with: one item, or an item
\* the call rejects (a part without a price, an order with quantity 0)
\* followed by one it accepts.
PartListInputs ==
    {<<part>> : part \in PartInputs} \cup
    {<<[type |-> part.type], part>> : part \in PartInputs}

OrderListInputs ==
    {<<order>> : order \in OrderInputs} \cup
    {<<[order EXCEPT !.quantity = 0], order>> : order \in OrderInputs}

OrderChanges ==
    [quantity : {1}] \cup [status : StatusInputs] \cup
    [quantity : {1}, status : StatusInputs]

Next ==
    \/ add_user /\ InBounds /\ Alone
    \/ \E parts_list \in PartListInputs : add_part(parts_list) /\ InBounds
          /\ Alone
    \/ \E u \in UserIds, n \in NameInputs :
          create_custom_bot_for_user(<<[user_id |-> u, name |-> n]>>) /\ InBounds
          /\ Alone
    \/ \E p \in PartIds, b \in BotIds, a \in AmountInputs, d \in DirectionEnum :
          add_part_to_custom_bot(p, b, a, d) /\ InBounds
          /\ Alone
    \/ \E t \in TypeInputs, f \in BOOLEAN : create_part_type_metadata(t, f)
          /\ Alone
    \/ \E orders_list \in OrderListInputs : add_order(orders_list) /\ InBounds
          /\ Alone
    \/ \E b \in BotIds, n \in NameInputs : update_custom_bot(b, n) /\ Alone
    \/ \E p \in PartIds, c \in PartChanges : update_bot_part(p, c) /\ Alone
    \/ \E o \in OrderIds, c \in OrderChanges : update_order(o, c) /\ InBounds
          /\ Alone
    \/ \E b \in BotIds, p \in PartIds, d \in DirectionEnum, a \in AmountInputs :
          update_part_on_custom_bot(b, p, d, a)
          /\ Alone
    \/ \E u \in UserIds : delete_user(u) /\ Alone
    \/ \E u \in UserIds, b \in BotIds : delete_custom_bot_from_user(u, b)
          /\ Alone
    \/ \E p \in PartIds : delete_robot_part(p) /\ Alone
    \/ \E b \in BotIds, p \in PartIds : delete_part_from_custom_bot(b, p)
          /\ Alone
    \/ \E o \in OrderIds : delete_order(o) /\ Alone

Spec == Init /\ [][Next]_vars

(***************************************************************************)
(* The order specification: two users who order the same bot, with the     *)
(* calls that place, change and delete orders, that change the price of a  *)
(* part, and that take a part off a bot or delete the bot.  The catalog's  *)
(* types and the registry stay as loaded.                                  *)
(***************************************************************************)
OrderingUserIds == {1, 2}
OrderingOrderIds == {1, 2}
OrderingStatusInputs == {"pending", "paid"}

OrderingInBounds ==
    Bounded(OrderingUserIds, PartIds, BotIds, OrderingOrderIds, MaxQuantity)

OrderingOrderInputs ==
    [user_id : OrderingUserIds, custom_robot_id : BotIds,
     quantity : QuantityInputs, status : OrderingStatusInputs]

OrderingOrderChanges ==
    [quantity : 0..MaxQuantity] \cup [status : OrderingStatusInputs]

NextOrdering ==
    \/ add_user /\ OrderingInBounds /\ Alone
    \/ \E u \in OrderingUserIds, n \in NameInputs :
          create_custom_bot_for_user(<<[user_id |-> u, name |-> n]>>)
            /\ OrderingInBounds
          /\ Alone
    \/ \E p \in PartIds, b \in BotIds, a \in AmountInputs :
          add_part_to_custom_bot(p, b, a, "center") /\ OrderingInBounds
          /\ Alone
    \/ \E order \in OrderingOrderInputs : add_order(<<order>>) /\ OrderingInBounds
          /\ Alone
    \/ \E p \in PartIds, c \in [price : PriceInputs] : update_bot_part(p, c)
          /\ Alone
    \/ \E o \in OrderingOrderIds, c \in OrderingOrderChanges :
          update_order(o, c) /\ OrderingInBounds
          /\ Alone
    \/ \E u \in OrderingUserIds, b \in BotIds : delete_custom_bot_from_user(u, b)
          /\ Alone
    \/ \E b \in BotIds, p \in PartIds : delete_part_from_custom_bot(b, p)
          /\ Alone
    \/ \E o \in OrderingOrderIds : delete_order(o) /\ Alone

SpecOrdering == Init /\ [][NextOrdering]_vars

(***************************************************************************)
(* The naming specification: one user with up to two bots, which are       *)
(* created, renamed, given parts, ordered and released again.              *)
(***************************************************************************)
NamingBotIds == {1, 2}
NamingNameInputs == {"bot_a", "bot_b"}

NamingInBounds == Bounded(UserIds, PartIds, NamingBotIds, OrderIds, 1)

NamingOrderInputs ==
    [user_id : UserIds, custom_robot_id : NamingBotIds,
     quantity : {1}, status : {"pending"}]

\* bots_list: one bot, or two bots.
NamingBotListInputs ==
    LET bot == [user_id : UserIds, name : NamingNameInputs]
    IN  {<<b>> : b \in bot} \cup {<<b1, b2>> : b1 \in bot, b2 \in bot}

NextNaming ==
    \/ add_user /\ NamingInBounds /\ Alone
    \/ \E bots_list \in NamingBotListInputs :
          create_custom_bot_for_user(bots_list) /\ NamingInBounds
          /\ Alone
    \/ \E p \in PartIds, b \in NamingBotIds, a \in AmountInputs :
          add_part_to_custom_bot(p, b, a, "center") /\ NamingInBounds
          /\ Alone
    \/ \E order \in NamingOrderInputs : add_order(<<order>>) /\ NamingInBounds
          /\ Alone
    \/ \E b \in NamingBotIds, n \in NamingNameInputs : update_custom_bot(b, n)
          /\ Alone
    \/ \E u \in UserIds, b \in NamingBotIds : delete_custom_bot_from_user(u, b)
          /\ Alone
    \/ \E o \in OrderIds : delete_order(o) /\ Alone

SpecNaming == Init /\ [][NextNaming]_vars

(***************************************************************************)
(* The catalog specification: parts are added and repriced with any number *)
(* as price, a negative one included, and are placed on a bot, replaced    *)
(* and ordered.                                                            *)
(***************************************************************************)
CatalogPriceInputs == {-5, 10}
CatalogPartIds == {1, 2}

CatalogInBounds == Bounded(UserIds, CatalogPartIds, BotIds, OrderIds, 1)

NextCatalog ==
    \/ add_user /\ CatalogInBounds /\ Alone
    \/ \E price \in CatalogPriceInputs :
          add_part(<<[type |-> "chest", price |-> price]>>) /\ CatalogInBounds
          /\ Alone
    \/ \E u \in UserIds, n \in NameInputs :
          create_custom_bot_for_user(<<[user_id |-> u, name |-> n]>>)
            /\ CatalogInBounds
          /\ Alone
    \/ \E p \in CatalogPartIds, b \in BotIds :
          add_part_to_custom_bot(p, b, 1, "center") /\ CatalogInBounds
          /\ Alone
    \/ \E order \in OrderInputs : add_order(<<order>>) /\ CatalogInBounds
          /\ Alone
    \/ \E p \in CatalogPartIds, price \in CatalogPriceInputs :
          update_bot_part(p, [price |-> price])
          /\ Alone
    \/ \E b \in BotIds, p \in CatalogPartIds, a \in AmountInputs :
          update_part_on_custom_bot(b, p, "center", a)
          /\ Alone
    \/ \E p \in CatalogPartIds : delete_robot_part(p) /\ Alone

SpecCatalog == Init /\ [][NextCatalog]_vars

(***************************************************************************)
(* The account specification: two users, the bot of one of them, the       *)
(* orders either of them places on it, and the deletion of a user.         *)
(***************************************************************************)
AccountInBounds == Bounded(OrderingUserIds, PartIds, BotIds, OrderIds, 1)

AccountOrderInputs ==
    [user_id : OrderingUserIds, custom_robot_id : BotIds,
     quantity : {1}, status : OrderingStatusInputs]

NextAccount ==
    \/ add_user /\ AccountInBounds /\ Alone
    \/ \E u \in OrderingUserIds, n \in NameInputs :
          create_custom_bot_for_user(<<[user_id |-> u, name |-> n]>>)
            /\ AccountInBounds
          /\ Alone
    \/ \E p \in PartIds, b \in BotIds, a \in AmountInputs :
          add_part_to_custom_bot(p, b, a, "center") /\ AccountInBounds
          /\ Alone
    \/ \E order \in AccountOrderInputs : add_order(<<order>>) /\ AccountInBounds
          /\ Alone
    \/ \E o \in OrderIds, c \in [status : OrderingStatusInputs] :
          update_order(o, c) /\ Alone
    \/ \E o \in OrderIds : delete_order(o) /\ Alone
    \/ \E u \in OrderingUserIds, b \in BotIds : delete_custom_bot_from_user(u, b)
          /\ Alone
    \/ \E u \in OrderingUserIds : delete_user(u) /\ Alone

SpecAccount == Init /\ [][NextAccount]_vars

(***************************************************************************)
(* Calls made at the same time.  app.run() serves each request in a thread *)
(* of its own and each call opens a Session of its own: its SELECTs run    *)
(* outside a transaction and see what is committed at that moment, the     *)
(* objects it loaded keep the values they were loaded with, and its        *)
(* INSERTs and UPDATEs are sent at the flush and committed while SQLite    *)
(* holds the file's write lock.  A call in flight takes one step for each  *)
(* group of reads that no other call writes in between, and one step for   *)
(* the flush and the commit.  The rows are set up before the calls start.  *)
(***************************************************************************)
\* A call at statement `pc`, with its arguments and the values it loaded.
InFlight(op, pc, args, loaded) ==
    [op |-> op, pc |-> pc, args |-> args, loaded |-> loaded]

\* A call that has returned `ok` after printing `msg`.
Returned(call, ok, msg) ==
    [op |-> call.op, pc |-> "done", args |-> call.args,
     loaded |-> call.loaded, ok |-> ok, msg |-> msg]

\* No request is being served.
Quiet == \A s \in Slots : calls[s] = Idle

\* A request arrives and its thread enters the call.
StartCall(s, op, args) ==
    /\ calls[s] = Idle
    /\ calls' = [calls EXCEPT ![s] = InFlight(op, "validate", args, [found |-> FALSE])]
    /\ UNCHANGED <<db, last>>

\* add_order, "Validate user", "Validate custom bot", "Check that the bot
\* has at least one part", "Get quantity": a rejected order is skipped and
\* the call returns True.
add_order_validate(s) ==
    LET call == calls[s]
        order == call.args
        bot_id == order.custom_robot_id
    IN  /\ call.op = "add_order" /\ call.pc = "validate"
        /\ calls' = [calls EXCEPT ![s] =
              IF order.user_id \notin users
              THEN Returned(call, TRUE, "no_user")
              ELSE IF bot_id \notin DOMAIN custom_bots
              THEN Returned(call, TRUE, "no_bot")
              ELSE IF PartsOfBot(bot_id) = {}
              THEN Returned(call, TRUE, "no_parts")
              ELSE IF order.quantity <= 0
              THEN Returned(call, TRUE, "invalid_quantity")
              ELSE [call EXCEPT !.pc = "bot_price"]]
        /\ UNCHANGED <<db, last>>

\* add_order, "Calculate price of one bot": total_price is computed from
\* the prices and the amounts committed at this moment.
add_order_bot_price(s) ==
    LET call == calls[s]
        order == call.args
        bot_id == order.custom_robot_id
    IN  /\ call.op = "add_order" /\ call.pc = "bot_price"
        /\ calls' = [calls EXCEPT ![s] =
              IF ~HasBotPrice(robot_parts, bot_id)
              THEN Returned(call, TRUE, "no_price")
              ELSE InFlight(call.op, "existing_order", order,
                            [found |-> FALSE,
                             total_price |->
                               order.quantity * bot_price(robot_parts, bot_id)])]
        /\ UNCHANGED <<db, last>>

\* add_order, "Check if a pending order for this user and bot already
\* exists": the order object is loaded with its quantity and total_price.
add_order_existing_order(s) ==
    LET call == calls[s]
        order == call.args
        existing == PendingOrdersOfUserBot(orders, order.user_id,
                                           order.custom_robot_id)
    IN  /\ call.op = "add_order" /\ call.pc = "existing_order"
        /\ IF existing = {}
           THEN calls' = [calls EXCEPT ![s] = [call EXCEPT !.pc = "commit"]]
           ELSE \E o \in existing :
                   calls' = [calls EXCEPT ![s] =
                      InFlight(call.op, "commit", order,
                               [found |-> TRUE,
                                total_price |-> call.loaded.total_price,
                                id |-> o,
                                quantity |-> orders[o].quantity,
                                order_total_price |-> orders[o].total_price])]
        /\ UNCHANGED <<db, last>>

\* add_order, from "if existing_order" to session.commit(): the UPDATE
\* writes the loaded quantity and total_price plus those of this order, the
\* INSERT takes the next id; an UPDATE that matches no row raises, the
\* session is rolled back and the call still returns True.
add_order_commit(s) ==
    LET call == calls[s]
        order == call.args
        loaded == call.loaded
        bot_id == order.custom_robot_id
        new_order == [user_id |-> order.user_id,
                      custom_robot_id |-> bot_id,
                      quantity |-> order.quantity,
                      total_price |-> loaded.total_price,
                      status |-> order.status]
        stale == \/ bot_id \notin DOMAIN custom_bots
                 \/ loaded.found /\ loaded.id \notin DOMAIN orders
    IN  /\ call.op = "add_order" /\ call.pc = "commit"
        /\ IF stale
           THEN /\ UNCHANGED <<orders, custom_bots>>
                /\ calls' = [calls EXCEPT ![s] = Returned(call, TRUE, "error")]
           ELSE /\ orders' =
                     IF loaded.found
                     THEN [orders EXCEPT
                             ![loaded.id].quantity =
                                 loaded.quantity + order.quantity,
                             ![loaded.id].total_price =
                                 loaded.order_total_price + loaded.total_price]
                     ELSE orders @@ (NextId(DOMAIN orders) :> new_order)
                /\ custom_bots' = [custom_bots EXCEPT ![bot_id].status = "ordered"]
                /\ calls' = [calls EXCEPT ![s] =
                      Returned(call, TRUE,
                               IF loaded.found THEN "merged" ELSE "created")]
        /\ UNCHANGED <<users, part_type_metadata, robot_parts, custom_bot_parts,
                       last>>

\* add_part_to_custom_bot, from "Validate direction" to the check of the
\* bot's status.
add_part_to_custom_bot_validate(s) ==
    LET call == calls[s]
        args == call.args
        part_type == robot_parts[args.part_id].type
        fail(msg) == Returned(call, FALSE, msg)
    IN  /\ call.op = "add_part_to_custom_bot" /\ call.pc = "validate"
        /\ calls' = [calls EXCEPT ![s] =
              IF args.direction \notin {"left", "right", "center"}
              THEN fail("invalid_direction")
              ELSE IF args.amount < 1
              THEN fail("invalid_amount")
              ELSE IF args.part_id \notin DOMAIN robot_parts
              THEN fail("no_part")
              ELSE IF part_type \notin DOMAIN part_type_metadata
              THEN fail("type_not_registered")
              ELSE IF part_type_metadata[part_type]
                        /\ args.direction \notin {"left", "right"}
              THEN fail("direction_for_asymmetrical")
              ELSE IF ~part_type_metadata[part_type] /\ args.direction # "center"
              THEN fail("direction_for_symmetrical")
              ELSE IF args.custom_robot_id \notin DOMAIN custom_bots
              THEN fail("no_bot")
              ELSE IF BotLocked(custom_bots[args.custom_robot_id])
              THEN fail("bot_ordered")
              ELSE [call EXCEPT !.pc = "existing_entry"]]
        /\ UNCHANGED <<db, last>>

\* add_part_to_custom_bot, the SELECT of existing_entry: the row is loaded
\* with its amount.
add_part_to_custom_bot_existing_entry(s) ==
    LET call == calls[s]
        args == call.args
        existing_entry == RowsAt(custom_bot_parts, args.custom_robot_id,
                                 args.part_id, args.direction)
    IN  /\ call.op = "add_part_to_custom_bot" /\ call.pc = "existing_entry"
        /\ IF existing_entry = {}
           THEN calls' = [calls EXCEPT ![s] =
                   InFlight(call.op, "commit", args,
                            [found |-> FALSE, robot_part_amount |-> 0])]
           ELSE \E r \in existing_entry :
                   calls' = [calls EXCEPT ![s] =
                      InFlight(call.op, "commit", args,
                               [found |-> TRUE,
                                robot_part_amount |-> r.robot_part_amount])]
        /\ UNCHANGED <<db, last>>

\* add_part_to_custom_bot, from "if existing_entry" to session.commit():
\* the UPDATE writes the loaded amount plus `amount`, the INSERT adds a row;
\* an UPDATE that matches no row or an INSERT of a primary key that is
\* there raises, the session is rolled back and the call returns False.
add_part_to_custom_bot_commit(s) ==
    LET call == calls[s]
        args == call.args
        loaded == call.loaded
        existing_entry == RowsAt(custom_bot_parts, args.custom_robot_id,
                                 args.part_id, args.direction)
        written == [custom_robot_id |-> args.custom_robot_id,
                    robot_part_id |-> args.part_id,
                    direction |-> args.direction,
                    robot_part_amount |-> loaded.robot_part_amount + args.amount]
        raises == IF loaded.found THEN existing_entry = {}
                                  ELSE existing_entry # {}
    IN  /\ call.op = "add_part_to_custom_bot" /\ call.pc = "commit"
        /\ IF raises
           THEN /\ UNCHANGED <<custom_bot_parts, part_type_metadata>>
                /\ calls' = [calls EXCEPT ![s] =
                      Returned(call, FALSE,
                               IF loaded.found THEN "stale_data"
                                               ELSE "integrity_error")]
           ELSE /\ custom_bot_parts' =
                     (custom_bot_parts \ existing_entry) \cup {written}
                /\ part_type_metadata' =
                     UpToDateMetadata(robot_parts[args.part_id].type,
                                      args.direction)
                /\ calls' = [calls EXCEPT ![s] =
                      Returned(call, TRUE,
                               IF loaded.found THEN "updated_amount"
                                               ELSE "added")]
        /\ UNCHANGED <<users, robot_parts, custom_bots, orders, last>>

\* update_bot_part made by a request thread.  The part is written at
\* session.flush() and SQLite holds the write lock from there to the
\* commit, so that no other call commits in between: the call is one step.
update_bot_part_call(s) ==
    LET call == calls[s]
    IN  /\ call.op = "update_bot_part" /\ call.pc = "validate"
        /\ update_bot_part(call.args.part_id, call.args.changes)
        /\ calls' = [calls EXCEPT ![s] = Returned(call, last'.ok, last'.msg)]

\* The rows there can be while two calls run.
ConcurrentInBounds ==
    /\ users' \subseteq UserIds
    /\ DOMAIN robot_parts' \subseteq PartIds
    /\ DOMAIN custom_bots' \subseteq BotIds
    /\ DOMAIN orders' \subseteq OrderingOrderIds
    /\ \A r \in custom_bot_parts' : r.robot_part_amount <= MaxAmount + 1
    /\ \A o \in DOMAIN orders' : orders'[o].quantity <= MaxQuantity

ConcurrentOrderInputs ==
    [user_id : UserIds, custom_robot_id : BotIds, quantity : {1},
     status : {"pending"}]

ConcurrentAssignInputs ==
    [part_id : PartIds, custom_robot_id : BotIds, amount : {1},
     direction : {"center"}]

ConcurrentPriceInputs == [part_id : PartIds, changes : [price : PriceInputs]]

NextConcurrent ==
    \/ Quiet /\ add_user /\ ConcurrentInBounds /\ Alone
    \/ \E u \in UserIds, n \in NameInputs :
          /\ Quiet
          /\ create_custom_bot_for_user(<<[user_id |-> u, name |-> n]>>)
          /\ ConcurrentInBounds /\ Alone
    \/ \E p \in PartIds, b \in BotIds, a \in AmountInputs :
          /\ Quiet
          /\ add_part_to_custom_bot(p, b, a, "center")
          /\ ConcurrentInBounds /\ Alone
    \/ \E s \in Slots, order \in ConcurrentOrderInputs :
          StartCall(s, "add_order", order)
    \/ \E s \in Slots, args \in ConcurrentAssignInputs :
          StartCall(s, "add_part_to_custom_bot", args)
    \/ \E s \in Slots, args \in ConcurrentPriceInputs :
          StartCall(s, "update_bot_part", args)
    \/ \E s \in Slots : add_order_validate(s)
    \/ \E s \in Slots : add_order_bot_price(s)
    \/ \E s \in Slots : add_order_existing_order(s)
    \/ \E s \in Slots : add_order_commit(s) /\ ConcurrentInBounds
    \/ \E s \in Slots : add_part_to_custom_bot_validate(s)
    \/ \E s \in Slots : add_part_to_custom_bot_existing_entry(s)
    \/ \E s \in Slots : add_part_to_custom_bot_commit(s) /\ ConcurrentInBounds
    \/ \E s \in Slots : update_bot_part_call(s)

SpecConcurrent == Init /\ [][NextConcurrent]_vars

(***************************************************************************)
(* The properties.                                                         *)
(***************************************************************************)
\* The orders the claims call pending on an assembly that contains a part.
ContainsPart(bot_id, part_id) ==
    \E r \in custom_bot_parts :
        r.custom_robot_id = bot_id /\ r.robot_part_id = part_id

\* A step is a call of update_bot_part that changes the price of part p.
PriceChangeStep(p, c) ==
    /\ last'.op = "update_bot_part"
    /\ p \in DOMAIN robot_parts
    /\ "price" \in DOMAIN c
    /\ c.price # robot_parts[p].price
    /\ update_bot_part(p, c)

\* C1: after a successful update_bot_part that changes the price of part p,
\* every pending order on a bot that contains p has
\* total_price = quantity * sum(price * amount) over the bot's rows, at the
\* new price; also when several pending orders are on the same bot.
C1_EveryPendingOrderRepriced ==
    [][\A p \in PartIds, c \in [price : PriceInputs] :
          (PriceChangeStep(p, c) /\ last'.ok)
          => \A o \in DOMAIN orders' :
                (/\ orders'[o].status = "pending"
                 /\ ContainsPart(orders'[o].custom_robot_id, p))
                => orders'[o].total_price =
                     orders'[o].quantity *
                       bot_price(robot_parts', orders'[o].custom_robot_id)]_vars

\* C2: a price change of part p leaves every order that is not pending, and
\* every order on a bot that does not contain p, as it was.
C2_PriceChangeFrame ==
    [][\A p \in PartIds, c \in PartChanges :
          PriceChangeStep(p, c)
          => \A o \in DOMAIN orders :
                (\/ orders[o].status # "pending"
                 \/ ~ContainsPart(orders[o].custom_robot_id, p))
                => (o \in DOMAIN orders' /\ orders'[o] = orders[o])]_vars

\* C2's case: a price change has just been made while an order that is not
\* pending is on a bot that contains the part; the order keeps the total
\* computed at the old price.
C2_Witness ==
    /\ last = Ret("update_bot_part", TRUE, "price_changed")
    /\ \E o \in DOMAIN orders :
          /\ orders[o].status # "pending"
          /\ ContainsPart(orders[o].custom_robot_id, 1)
          /\ orders[o].total_price #
               orders[o].quantity * bot_price(robot_parts, orders[o].custom_robot_id)

\* The calls C3 lists: assignPart, update_part_on_custom_bot,
\* removeAssignment, renameAssembly, deleteAssembly, deletePart.
AssemblyCalls ==
    {"add_part_to_custom_bot", "update_part_on_custom_bot",
     "delete_part_from_custom_bot", "update_custom_bot",
     "delete_custom_bot_from_user", "delete_robot_part"}

\* C3: once an order on a bot has left pending, none of the calls that
\* change an assembly changes the bot's rows of custom_bot_parts or deletes
\* the bot.
C3_LockedAssemblyUnchanged ==
    [][\A b \in DOMAIN custom_bots :
          (/\ \E o \in DOMAIN orders :
                 orders[o].custom_robot_id = b /\ orders[o].status # "pending"
           /\ last'.op \in AssemblyCalls)
          => /\ b \in DOMAIN custom_bots'
             /\ {r \in custom_bot_parts' : r.custom_robot_id = b} = PartsOfBot(b)]_vars

\* C4: add_part_to_custom_bot on a bot whose status is not in_progress
\* fails and leaves custom_bot_parts, the registry and the orders unchanged.
C4_AssignToLockedFails ==
    [][\A p \in PartIds, b \in BotIds, a \in AmountInputs, d \in DirectionEnum :
          (/\ last'.op = "add_part_to_custom_bot"
           /\ b \in DOMAIN custom_bots
           /\ custom_bots[b].status # "in_progress"
           /\ add_part_to_custom_bot(p, b, a, d))
          => /\ ~last'.ok
             /\ UNCHANGED <<custom_bot_parts, part_type_metadata, orders>>]_vars

\* C4's case: the call has just been refused because the bot is ordered,
\* and the bot holds parts.
C4_Witness ==
    /\ last = Ret("add_part_to_custom_bot", FALSE, "bot_ordered")
    /\ \E b \in DOMAIN custom_bots :
          custom_bots[b].status = "ordered" /\ PartsOfBot(b) # {}

\* C5: there is at most one row of custom_bot_parts per
\* (bot, part, direction), and a successful add_part_to_custom_bot leaves
\* exactly one row at its key, whose amount is the amount that was there
\* (none: 0) plus the amount added.
C5_OneRowAccumulates ==
    /\ []PrimaryKeyOk(custom_bot_parts)
    /\ [][\A p \in PartIds, b \in BotIds, a \in AmountInputs, d \in DirectionEnum :
             (last'.ok /\ last'.op = "add_part_to_custom_bot"
                /\ add_part_to_custom_bot(p, b, a, d))
             => LET before == RowsAt(custom_bot_parts, b, p, d)
                    after == RowsAt(custom_bot_parts', b, p, d)
                    was == IF before = {} THEN 0
                           ELSE (CHOOSE r \in before : TRUE).robot_part_amount
                IN  /\ Cardinality(after) = 1
                    /\ \A r \in after : r.robot_part_amount = was + a
                    /\ custom_bot_parts' \ after = custom_bot_parts \ before]_vars

\* C5's case: the same (bot, part, direction) has been assigned a second
\* time, and its one row holds the two amounts together.
C5_Witness ==
    /\ last = Ret("add_part_to_custom_bot", TRUE, "updated_amount")
    /\ \E r \in custom_bot_parts : r.robot_part_amount = 2
    /\ PrimaryKeyOk(custom_bot_parts)

\* C6: a type whose is_asymmetrical is true stays registered with
\* is_asymmetrical true in every later state.
C6_AsymmetricalForever ==
    [][\A t \in DOMAIN part_type_metadata :
          part_type_metadata[t]
          => (t \in DOMAIN part_type_metadata' /\ part_type_metadata'[t])]_vars

\* C6's case: a call has just tried to register an asymmetrical type as
\* symmetrical.
C6_Witness ==
    /\ last = Ret("create_part_type_metadata", FALSE,
                  "ValueError: exists with is_asymmetrical=True")
    /\ \E t \in DOMAIN part_type_metadata : part_type_metadata[t]

\* C7: every row of custom_bot_parts has a direction that fits the
\* registered symmetry of its part's type: left or right for an
\* asymmetrical type, center for a symmetrical one.
C7_DirectionFitsSymmetry ==
    \A r \in custom_bot_parts :
        (/\ r.robot_part_id \in DOMAIN robot_parts
         /\ robot_parts[r.robot_part_id].type \in DOMAIN part_type_metadata)
        => IF part_type_metadata[robot_parts[r.robot_part_id].type]
           THEN r.direction \in {"left", "right"}
           ELSE r.direction = "center"

\* C8: add_part_to_custom_bot with direction left or right, for a part
\* whose type is registered as symmetrical and a bot in progress, is
\* accepted: the row is there afterwards and the type is asymmetrical.
C8_LeftRightUpgradesType ==
    [][\A p \in PartIds, b \in BotIds, a \in AmountInputs, d \in {"left", "right"} :
          (/\ p \in DOMAIN robot_parts
           /\ robot_parts[p].type \in DOMAIN part_type_metadata
           /\ ~part_type_metadata[robot_parts[p].type]
           /\ b \in DOMAIN custom_bots
           /\ custom_bots[b].status = "in_progress"
           /\ add_part_to_custom_bot(p, b, a, d))
          => /\ last'.ok
             /\ RowsAt(custom_bot_parts', b, p, d) # {}
             /\ part_type_metadata'[robot_parts[p].type]]_vars

\* A step is a call of create_part_type_metadata for a registered type.
ReRegisterStep(t, f) ==
    /\ last'.op = "create_part_type_metadata"
    /\ t \in DOMAIN part_type_metadata
    /\ create_part_type_metadata(t, f)

\* C9: create_part_type_metadata for a registered type returns "exists" and
\* changes nothing when the flag is the stored one; takes the change of a
\* stored false to true as an upgrade; fails and leaves the registry
\* unchanged when the stored flag is true and the given one false.
C9_ReRegister ==
    [][\A t \in TypeInputs, f \in BOOLEAN :
          ReRegisterStep(t, f)
          => IF part_type_metadata[t] = f
             THEN /\ last'.ok /\ last'.msg = "exists"
                  /\ part_type_metadata' = part_type_metadata
             ELSE IF f
             THEN /\ last'.ok
                  /\ part_type_metadata' = [part_type_metadata EXCEPT ![t] = TRUE]
             ELSE /\ ~last'.ok
                  /\ part_type_metadata' = part_type_metadata]_vars

\* C9 as amended: create_part_type_metadata for a registered type returns
\* "exists" and changes nothing when the flag is the stored one, and fails
\* and leaves the registry unchanged when the flag differs from the stored
\* one, in either direction.
C9_ReRegisterAmended ==
    [][\A t \in TypeInputs, f \in BOOLEAN :
          ReRegisterStep(t, f)
          => /\ part_type_metadata' = part_type_metadata
             /\ IF part_type_metadata[t] = f
                THEN last'.ok /\ last'.msg = "exists"
                ELSE ~last'.ok]_vars

\* C9's case: a call has just tried to register a symmetrical type as
\* asymmetrical, and the type is still symmetrical.
C9_Witness ==
    /\ last = Ret("create_part_type_metadata", FALSE,
                  "ValueError: exists with is_asymmetrical=False")
    /\ \E t \in DOMAIN part_type_metadata : ~part_type_metadata[t]

\* C10: add_order for a bot that has no rows in custom_bot_parts fails: it
\* reports failure, no order is created or changed and the bot's status is
\* as it was.
C10_OrderOnEmptyBotFails ==
    [][\A order \in OrderInputs :
          (/\ order.custom_robot_id \in DOMAIN custom_bots
           /\ PartsOfBot(order.custom_robot_id) = {}
           /\ add_order(<<order>>))
          => /\ ~last'.ok
             /\ orders' = orders
             /\ custom_bots' = custom_bots]_vars


\* C11: delete_order of a pending order removes the order and sets its
\* bot's status to in_progress; delete_order of an order that is not
\* pending fails and leaves the orders and the bots unchanged;
\* delete_order of an id that is not in the table fails and changes nothing.
C11_DeleteOrder ==
    [][\A o \in OrderingOrderIds :
          delete_order(o)
          => IF o \notin DOMAIN orders
             THEN ~last'.ok /\ db' = db
             ELSE IF orders[o].status # "pending"
             THEN ~last'.ok /\ db' = db
             ELSE /\ last'.ok
                  /\ o \notin DOMAIN orders'
                  /\ orders[o].custom_robot_id \in DOMAIN custom_bots'
                  /\ custom_bots'[orders[o].custom_robot_id].status = "in_progress"]_vars

\* The price of one bot: the sum of price * amount over its rows.
AssemblyPrice(bot_id) ==
    LET rows == PartsOfBot(bot_id)
        cost == [r \in rows |->
                    robot_parts[r.robot_part_id].price * r.robot_part_amount]
    IN  SumOf(cost, rows)

\* A step is a call of add_order with one order that adds a row.
CreatesOrderStep(order) ==
    /\ add_order(<<order>>)
    /\ last'.ok
    /\ DOMAIN orders' # DOMAIN orders

\* C12: an add_order that succeeds without merging adds one order whose
\* status is pending, whatever status the caller gave, with
\* total_price = quantity * the bot's price, and sets the bot's status to
\* ordered.
C12_NewOrderIsPending ==
    [][\A order \in OrderingOrderInputs :
          CreatesOrderStep(order)
          => \E o \in DOMAIN orders' \ DOMAIN orders :
                /\ DOMAIN orders' = DOMAIN orders \cup {o}
                /\ orders'[o].status = "pending"
                /\ orders'[o].quantity = order.quantity
                /\ orders'[o].total_price =
                     order.quantity * AssemblyPrice(order.custom_robot_id)
                /\ custom_bots'[order.custom_robot_id].status = "ordered"]_vars

\* C13: add_order for a user that exists and a bot that exists and holds
\* parts, when that user has a pending order on that bot, adds no row: one
\* pending order of that user and bot gets its quantity raised by the new
\* quantity and its total_price by the new quantity * the bot's price, and
\* every other order is as it was.
C13_MergeIntoPending ==
    [][\A order \in OrderingOrderInputs :
          (/\ last'.op = "add_order"
           /\ order.user_id \in users
           /\ order.custom_robot_id \in DOMAIN custom_bots
           /\ PartsOfBot(order.custom_robot_id) # {}
           /\ \E o \in DOMAIN orders :
                 /\ orders[o].user_id = order.user_id
                 /\ orders[o].custom_robot_id = order.custom_robot_id
                 /\ orders[o].status = "pending"
           /\ add_order(<<order>>))
          => /\ last'.ok
             /\ DOMAIN orders' = DOMAIN orders
             /\ \E o \in DOMAIN orders :
                   /\ orders[o].user_id = order.user_id
                   /\ orders[o].custom_robot_id = order.custom_robot_id
                   /\ orders[o].status = "pending"
                   /\ orders' = [orders EXCEPT ![o] =
                         [@ EXCEPT
                            !.quantity = @ + order.quantity,
                            !.total_price =
                               @ + order.quantity *
                                     AssemblyPrice(order.custom_robot_id)]]]_vars

\* C13's case: an order has just been merged into a pending one, whose
\* quantity is now the two quantities together.
C13_Witness ==
    /\ last = Ret("add_order", TRUE, <<"merged">>)
    /\ \E o \in DOMAIN orders :
          /\ orders[o].status = "pending"
          /\ orders[o].quantity = 2
          /\ orders[o].total_price = 2 * AssemblyPrice(orders[o].custom_robot_id)
          /\ orders[o].total_price > 0


\* C14: a successful update_order that sets quantity to q > 0 leaves the
\* order with quantity q and total_price = q * the price of its bot, summed
\* over the bot's rows as they are; an update_order with a quantity that is
\* not positive fails and leaves the orders unchanged.
C14_QuantityReprices ==
    [][\A o \in OrderingOrderIds, c \in [quantity : 0..MaxQuantity] :
          (/\ last'.op = "update_order"
           /\ o \in DOMAIN orders
           /\ update_order(o, c))
          => IF c.quantity > 0
             THEN /\ last'.ok
                  /\ orders'[o].quantity = c.quantity
                  /\ orders'[o].total_price =
                       c.quantity * AssemblyPrice(orders[o].custom_robot_id)
             ELSE ~last'.ok /\ orders' = orders]_vars

\* C14's case: the quantity of an order has just been changed, after the
\* price of a part of its bot had changed, and the total is the new
\* quantity at the new price.
C14_Witness ==
    /\ last = Ret("update_order", TRUE, "updated")
    /\ \E o \in DOMAIN orders :
          /\ orders[o].quantity = 2
          /\ AssemblyPrice(orders[o].custom_robot_id) = 15
          /\ orders[o].total_price = 30


\* The bot is in progress and no order, of any status, is on it.
Unlocked(bot_id) ==
    /\ bot_id \in DOMAIN custom_bots
    /\ custom_bots[bot_id].status = "in_progress"
    /\ \A o \in DOMAIN orders : orders[o].custom_robot_id # bot_id

C16_DeleteAssemblyLocked ==
    [][\A u \in OrderingUserIds, b \in BotIds :
          (/\ b \in DOMAIN custom_bots
           /\ ~Unlocked(b)
           /\ delete_custom_bot_from_user(u, b))
          => ~last'.ok /\ db' = db]_vars

\* C17: delete_robot_part fails and leaves the parts and the rows of
\* custom_bot_parts unchanged whenever the part is on a bot that has an
\* order whose status is not pending.
C17_DeletePartLocked ==
    [][\A p \in PartIds :
          (/\ \E b \in BotsUsingPart(p) : \E o \in DOMAIN orders :
                 orders[o].custom_robot_id = b /\ orders[o].status # "pending"
           /\ delete_robot_part(p))
          => /\ ~last'.ok
             /\ UNCHANGED <<robot_parts, custom_bot_parts>>]_vars


\* The orders on the bots of a user whose status is one delete_user keeps.
PreservedOrdersOf(user_id) ==
    {o \in DOMAIN orders :
        /\ orders[o].custom_robot_id \in DOMAIN custom_bots
        /\ custom_bots[orders[o].custom_robot_id].user_id = user_id
        /\ orders[o].status \in {"paid", "shipped", "cancelled"}}

\* C18: delete_user of a user who owns a bot with an order whose status is
\* paid, shipped or cancelled succeeds: the user is gone and each of these
\* orders is still there, with user_id None.
C18_DeleteUserAnonymizes ==
    [][\A u \in UserIds :
          (/\ u \in users
           /\ PreservedOrdersOf(u) # {}
           /\ delete_user(u))
          => /\ last'.ok
             /\ u \notin users'
             /\ \A o \in PreservedOrdersOf(u) :
                   o \in DOMAIN orders' /\ orders'[o].user_id = None]_vars

\* C19: a successful delete_user deletes no order that is not pending:
\* every order whose status is not pending is still there afterwards.
C19_DeleteUserKeepsNonPending ==
    [][\A u \in UserIds :
          (delete_user(u) /\ last'.ok)
          => \A o \in DOMAIN orders :
                orders[o].status # "pending" => o \in DOMAIN orders']_vars


\* C20: an update_bot_part with a price that fails, on the validation of
\* another field or while the orders are recomputed, leaves the parts and
\* the orders as they were; one that succeeds leaves the part with the new
\* price and every order it changed with
\* total_price = quantity * the bot's price at the new price.
C20_PriceChangeAtomic ==
    [][\A p \in PartIds, c \in PartChanges :
          (/\ last'.op = "update_bot_part"
           /\ p \in DOMAIN robot_parts
           /\ "price" \in DOMAIN c
           /\ update_bot_part(p, c))
          => IF last'.ok
             THEN /\ robot_parts'[p].price = c.price
                  /\ DOMAIN orders' = DOMAIN orders
                  /\ \A o \in DOMAIN orders :
                        orders'[o] # orders[o]
                        => orders'[o] =
                             [orders[o] EXCEPT !.total_price =
                                orders[o].quantity *
                                  bot_price(robot_parts', orders[o].custom_robot_id)]
             ELSE robot_parts' = robot_parts /\ orders' = orders]_vars

\* C20's case: a price change has just failed while the order of a bot
\* that holds the part was recomputed; the order's total is at the price
\* the part has.
C20_Witness ==
    /\ last = Ret("update_bot_part", FALSE, "recalculation_error")
    /\ \E o \in DOMAIN orders :
          /\ orders[o].status = "pending"
          /\ PartsOfBot(orders[o].custom_robot_id) # {}
          /\ orders[o].total_price =
               orders[o].quantity * AssemblyPrice(orders[o].custom_robot_id)


\* The messages add_order prints for an order it does not take.
Rejections ==
    {"no_user", "no_bot", "no_parts", "invalid_quantity", "no_price"}

\* C21: add_order and add_part, given a list of which an item is rejected,
\* report failure and leave the tables unchanged.
C21_NoPartialSuccess ==
    [][/\ \A orders_list \in OrderListInputs :
             (/\ last'.op = "add_order"
              /\ add_order(orders_list)
              /\ \E i \in DOMAIN last'.msg : last'.msg[i] \in Rejections)
             => ~last'.ok /\ db' = db
       /\ \A parts_list \in PartListInputs :
             (/\ last'.op = "add_part"
              /\ add_part(parts_list)
              /\ \E i \in DOMAIN parts_list : ~ValidPart(parts_list[i]))
             => ~last'.ok /\ db' = db]_vars


\* C26: in every reachable state at most one order with status pending is
\* there for a user and a bot.
C26_OnePendingPerUserBot ==
    \A o1, o2 \in DOMAIN orders :
        (/\ orders[o1].status = "pending"
         /\ orders[o2].status = "pending"
         /\ orders[o1].user_id = orders[o2].user_id
         /\ orders[o1].custom_robot_id = orders[o2].custom_robot_id)
        => o1 = o2

\* C27: no step changes the quantity or the total_price of an order whose
\* status is not pending.
C27_NonPendingFrozen ==
    [][\A o \in DOMAIN orders :
          (orders[o].status # "pending" /\ o \in DOMAIN orders')
          => /\ orders'[o].quantity = orders[o].quantity
             /\ orders'[o].total_price = orders[o].total_price]_vars

\* C28: update_order changes the status of a pending order to paid or
\* cancelled only, and never sets the status of an order that is not
\* pending to pending.
C28_StatusForward ==
    [][\A o \in DOMAIN orders :
          (/\ last'.op = "update_order"
           /\ o \in DOMAIN orders'
           /\ orders'[o].status # orders[o].status)
          => IF orders[o].status = "pending"
             THEN orders'[o].status \in {"paid", "cancelled"}
             ELSE orders'[o].status # "pending"]_vars


\* C29: a bot's status changes from in_progress to ordered only in a step
\* of add_order that creates or changes an order on the bot, and from
\* ordered to in_progress only in a step of delete_order that succeeds and
\* deletes a pending order on the bot.
C29_StatusFollowsOrders ==
    [][\A b \in DOMAIN custom_bots :
          (b \in DOMAIN custom_bots' /\ custom_bots'[b].status # custom_bots[b].status)
          => IF custom_bots[b].status = "in_progress"
             THEN /\ last'.op = "add_order"
                  /\ \E o \in DOMAIN orders' :
                        /\ orders'[o].custom_robot_id = b
                        /\ o \in DOMAIN orders => orders'[o] # orders[o]
             ELSE /\ last'.op = "delete_order"
                  /\ last'.ok
                  /\ \E o \in DOMAIN orders \ DOMAIN orders' :
                        /\ orders[o].custom_robot_id = b
                        /\ orders[o].status = "pending"]_vars

\* C29's case: an ordered bot has just been renamed, while an order is on
\* it, and is still ordered.
C29_Witness ==
    /\ last = Ret("update_custom_bot", TRUE, "updated")
    /\ \E b \in DOMAIN custom_bots :
          /\ custom_bots[b].status = "ordered"
          /\ \E o \in DOMAIN orders : orders[o].custom_robot_id = b


\* C30: update_custom_bot with a name, on a bot whose status is ordered,
\* fails and leaves the bot as it was.
C30_RenameOrderedRejected ==
    [][\A b \in NamingBotIds, n \in NamingNameInputs :
          (/\ last'.op = "update_custom_bot"
           /\ b \in DOMAIN custom_bots
           /\ custom_bots[b].status = "ordered"
           /\ update_custom_bot(b, n))
          => ~last'.ok /\ custom_bots' = custom_bots]_vars

\* Both request threads have returned from their calls.
BothReturned == \A s \in Slots : calls[s].pc = "done"

\* The call of thread s was add_order and it handled its order.
OrderHandled(s) ==
    /\ calls[s].op = "add_order"
    /\ calls[s].msg \in {"created", "merged"}

\* The pending orders of the user and the bot of the add_order of thread s.
PendingOrdersOfCall(s) ==
    PendingOrdersOfUserBot(orders, calls[s].args.user_id,
                           calls[s].args.custom_robot_id)

\* C22: once two add_order calls made at the same time for the same user
\* and bot have both handled their order, one pending order of that user
\* and bot is there, with the sum of the two quantities and that sum times
\* the bot's price as total_price.
C22_OrdersSerialized ==
    (/\ BothReturned
     /\ OrderHandled(1) /\ OrderHandled(2)
     /\ calls[1].args.user_id = calls[2].args.user_id
     /\ calls[1].args.custom_robot_id = calls[2].args.custom_robot_id)
    => LET quantity == calls[1].args.quantity + calls[2].args.quantity
           bot_id == calls[1].args.custom_robot_id
       IN  /\ Cardinality(PendingOrdersOfCall(1)) = 1
           /\ \A o \in PendingOrdersOfCall(1) :
                 /\ orders[o].quantity = quantity
                 /\ orders[o].total_price =
                      quantity * bot_price(robot_parts, bot_id)

\* C23: once an update_bot_part that changes a part's price and an
\* add_order on a bot that holds the part, made at the same time, have both
\* committed, the total_price of the pending order is its quantity times
\* the bot's price at the committed price of the part.
C23_NoStalePrice ==
    \A s, t \in Slots :
        (/\ BothReturned
         /\ calls[s].op = "update_bot_part" /\ calls[s].ok
         /\ OrderHandled(t)
         /\ ContainsPart(calls[t].args.custom_robot_id, calls[s].args.part_id))
        => \A o \in PendingOrdersOfCall(t) :
              orders[o].total_price =
                orders[o].quantity
                  * bot_price(robot_parts, calls[t].args.custom_robot_id)

\* C24: once an add_part_to_custom_bot and an add_order on the same bot,
\* made at the same time, have both returned, the total_price of the order
\* is its quantity times the price of the parts the bot holds.
C24_OrderReflectsParts ==
    \A s, t \in Slots :
        (/\ BothReturned
         /\ calls[s].op = "add_part_to_custom_bot"
         /\ OrderHandled(t)
         /\ calls[s].args.custom_robot_id = calls[t].args.custom_robot_id)
        => \A o \in PendingOrdersOfCall(t) :
              orders[o].total_price =
                orders[o].quantity * AssemblyPrice(calls[t].args.custom_robot_id)

\* The call of thread s was add_part_to_custom_bot and it passed the
\* validation.
AssignTried(s) ==
    /\ calls[s].op = "add_part_to_custom_bot"
    /\ calls[s].msg \in {"added", "updated_amount", "integrity_error",
                         "stale_data"}

\* C25: once two add_part_to_custom_bot calls made at the same time for
\* the same bot, part and direction have both returned, either both
\* returned True and the row's amount has grown by the two amounts, or one
\* returned False and the row's amount has grown by the amount of the
\* other one.
C25_NoAmountLost ==
    (/\ BothReturned
     /\ AssignTried(1) /\ AssignTried(2)
     /\ calls[1].args = calls[2].args)
    => LET args == calls[1].args
           before == IF calls[1].loaded.robot_part_amount
                          <= calls[2].loaded.robot_part_amount
                     THEN calls[1].loaded.robot_part_amount
                     ELSE calls[2].loaded.robot_part_amount
           grown(amount) ==
               \E r \in custom_bot_parts :
                  /\ RowsAt(custom_bot_parts, args.custom_robot_id,
                            args.part_id, args.direction) = {r}
                  /\ r.robot_part_amount = before + amount
       IN  \/ /\ calls[1].ok /\ calls[2].ok
              /\ grown(calls[1].args.amount + calls[2].args.amount)
           \/ \E s, t \in Slots :
                 /\ s # t /\ calls[s].ok /\ ~calls[t].ok
                 /\ grown(calls[s].args.amount)

\* C31: in every reachable state no two bots of the same user have the same
\* name.
C31_UniqueNamePerOwner ==
    \A b1, b2 \in DOMAIN custom_bots :
        (/\ custom_bots[b1].user_id = custom_bots[b2].user_id
         /\ custom_bots[b1].name = custom_bots[b2].name)
        => b1 = b2

\* C32: a delete_robot_part that succeeds removes no row of custom_bot_parts
\* of a bot whose status is ordered.
C32_DeletePartSparesOrdered ==
    [][\A p \in PartIds :
          (/\ last'.op = "delete_robot_part"
           /\ delete_robot_part(p)
           /\ last'.ok)
          => \A r \in custom_bot_parts :
                (/\ r.custom_robot_id \in DOMAIN custom_bots
                 /\ custom_bots[r.custom_robot_id].status = "ordered")
                => r \in custom_bot_parts']_vars

\* C33: a delete_part_from_custom_bot that succeeds removes the row of one
\* (bot, part, direction) and leaves every other row as it was, the rows of
\* the same part on the same bot in another direction included.
C33_RemovesOneDirection ==
    [][\A b \in BotIds, p \in PartIds :
          (/\ last'.op = "delete_part_from_custom_bot"
           /\ delete_part_from_custom_bot(b, p)
           /\ last'.ok)
          => \E d \in DirectionEnum :
                /\ RowsAt(custom_bot_parts, b, p, d) # {}
                /\ custom_bot_parts' =
                     custom_bot_parts \ RowsAt(custom_bot_parts, b, p, d)]_vars

\* C34: add_part_to_custom_bot for a part whose type is not in the registry,
\* on a bot in progress, is accepted: the row is there afterwards and the
\* type is registered, asymmetrical exactly when the direction is left or
\* right.
C34_UnseenTypeRegistered ==
    [][\A p \in PartIds, b \in BotIds, a \in AmountInputs, d \in DirectionEnum :
          (/\ last'.op = "add_part_to_custom_bot"
           /\ p \in DOMAIN robot_parts
           /\ robot_parts[p].type \notin DOMAIN part_type_metadata
           /\ b \in DOMAIN custom_bots
           /\ custom_bots[b].status = "in_progress"
           /\ add_part_to_custom_bot(p, b, a, d))
          => /\ last'.ok
             /\ RowsAt(custom_bot_parts', b, p, d) # {}
             /\ robot_parts[p].type \in DOMAIN part_type_metadata'
             /\ part_type_metadata'[robot_parts[p].type]
                  = (d \in {"left", "right"})]_vars

\* C35: in every reachable state the price of every part is at least 0, and
\* so is the total_price of every order.
C35_PricesNonNegative ==
    /\ \A p \in DOMAIN robot_parts : robot_parts[p].price >= 0
    /\ \A o \in DOMAIN orders : orders[o].total_price >= 0

\* The rows of a bot at a direction whose part has the type of part p.
SameTypeAt(rows, b, d, p) ==
    {r \in rows :
        /\ r.custom_robot_id = b
        /\ r.direction = d
        /\ r.robot_part_id \in DOMAIN robot_parts
        /\ robot_parts[r.robot_part_id].type = robot_parts[p].type}

\* C36: update_part_on_custom_bot on an ordered bot fails and changes
\* nothing; when it succeeds, the only row of the bot at the direction whose
\* part has the type of the new part is the row of the new part, with the
\* amount given.
C36_ReplacesTypeAtDirection ==
    [][\A b \in BotIds, p \in CatalogPartIds, d \in DirectionEnum,
         a \in AmountInputs :
          (/\ last'.op = "update_part_on_custom_bot"
           /\ b \in DOMAIN custom_bots
           /\ update_part_on_custom_bot(b, p, d, a))
          => IF custom_bots[b].status = "ordered"
             THEN ~last'.ok /\ db' = db
             ELSE last'.ok =>
                    SameTypeAt(custom_bot_parts', b, d, p) =
                      {[custom_robot_id |-> b, robot_part_id |-> p,
                        direction |-> d, robot_part_amount |-> a]}]_vars

\* C37: in every reachable state every bot that an order refers to has the
\* status ordered.
C37_ReferencedBotIsOrdered ==
    \A o \in DOMAIN orders :
        orders[o].custom_robot_id \in DOMAIN custom_bots
        => custom_bots[orders[o].custom_robot_id].status = "ordered"

\* C38: in every reachable state the total_price of every pending order is
\* its quantity times the sum of price * amount over the rows its bot holds.
C38_PendingTotalIsCurrent ==
    \A o \in DOMAIN orders :
        orders[o].status = "pending"
        => orders[o].total_price =
             orders[o].quantity * bot_price(robot_parts, orders[o].custom_robot_id)

\* C39: in every reachable state every order that names a user names the
\* owner of its bot.
C39_OrderedByOwner ==
    \A o \in DOMAIN orders :
        (/\ orders[o].user_id # None
         /\ orders[o].custom_robot_id \in DOMAIN custom_bots)
        => custom_bots[orders[o].custom_robot_id].user_id = orders[o].user_id

\* C40: after a delete_user that succeeds no order names the user, no bot
\* is owned by the user and no row of custom_bot_parts is on a bot the user
\* owned; a delete_user that fails leaves the users, the bots, their rows
\* and the orders unchanged.
C40_DeleteUserLeavesNothing ==
    [][\A u \in OrderingUserIds :
          (/\ last'.op = "delete_user"
           /\ delete_user(u))
          => IF last'.ok
             THEN /\ \A o \in DOMAIN orders' : orders'[o].user_id # u
                  /\ \A b \in DOMAIN custom_bots' : custom_bots'[b].user_id # u
                  /\ \A r \in custom_bot_parts' :
                        ~(/\ r.custom_robot_id \in DOMAIN custom_bots
                          /\ custom_bots[r.custom_robot_id].user_id = u)
             ELSE UNCHANGED <<users, custom_bots, custom_bot_parts, orders>>]_vars

====
